---- MODULE Spec2Model ----
(***************************************************************************)
(* A model of the Bitcoin script interpreter POC: the lib.rs entry points   *)
(* execute / is_valid, the dispatch loop Interpreter::execute_script with   *)
(* its handlers add / equal, and the Stack with the scriptnum and boolean   *)
(* codecs it calls.  A script is a sequence of bytes (0..255); a stack item *)
(* is a sequence of bytes; the stack is a sequence of items whose last      *)
(* element is the top.                                                      *)
(***************************************************************************)
EXTENDS Integers, Sequences, FiniteSets, TLC

VARIABLES
    script_sig,     \* argument of execute / is_valid (bytes)
    script_pubkey,  \* argument of execute / is_valid (bytes)
    entry,          \* the entry point called: "execute" or "is_valid"
    script,         \* Interpreter.script
    stack,          \* Interpreter.stack.items
    pos,            \* bytes of the script the Instructions iterator has consumed
    state,          \* "Running", "Failed", "Succeeded", or "Panicked" (unwinding)
    result,         \* what execute_script returned (Pending while it runs)
    ret,            \* what the entry point returned to its caller
    executed,       \* number of instructions the loop has dispatched in this call
    calls,          \* calls of execute_script made on this Interpreter, this one included
    prev            \* how the call before this one ended (result, executed)

vars == <<script_sig, script_pubkey, entry, script, stack, pos, state, result, ret, executed,
          calls, prev>>

(***************************************************************************)
(* Bounds of the model and the input alphabets.                             *)
(***************************************************************************)
MaxScriptLen == 4
MaxPushes == 3
MaxReuseLen == 4
MaxBoolPushes == 2
MaxConstLen == 2
MaxChain == 1
MaxCalls == 2

\* opcodes (bitcoin::opcodes::all) named by the dispatch match
OP_PUSHBYTES_75 == 75
OP_PUSHDATA1 == 76
OP_PUSHDATA2 == 77
OP_PUSHDATA4 == 78
OP_PUSHNUM_NEG1 == 79
OP_PUSHNUM_1 == 81
OP_PUSHNUM_16 == 96
OP_RETURN == 106
OP_LEFT == 128
OP_EQUAL == 135
OP_ADD == 147
OP_SUB == 148

\* the longest item read_scriptint_non_minimal accepts
MaxScriptIntLen == 4

\* the length of the buffer push_num hands to write_scriptint: [0u8; 8]
BufLen == 8

\* all sequences over S of length at most n
BSeq(S, n) == UNION {[1..k -> S] : k \in 0..n}

RECURSIVE Flatten(_)
Flatten(ss) == IF ss = <<>> THEN <<>> ELSE Head(ss) \o Flatten(Tail(ss))

(***************************************************************************)
(* Result values.                                                           *)
(***************************************************************************)
Pending == [kind |-> "Pending", val |-> FALSE, err |-> "none"]
Ok(b) == [kind |-> "Ok", val |-> b, err |-> "none"]
Err(e) == [kind |-> "Err", val |-> FALSE, err |-> e]
Bool(b) == [kind |-> "Bool", val |-> b, err |-> "none"]

(***************************************************************************)
(* i64.  TLC's integers are 32 bits wide and the sum of two scriptnums may  *)
(* need 33, so an i64 is its sign and its magnitude in base 256, least      *)
(* significant digit first, without leading zero digits (zero: no digit).   *)
(***************************************************************************)
RECURSIVE Digits(_)
Digits(k) == IF k = 0 THEN <<>> ELSE <<k % 256>> \o Digits(k \div 256)

RECURSIVE Strip(_)
Strip(v) ==
    IF v = <<>> THEN v
    ELSE IF v[Len(v)] = 0 THEN Strip(SubSeq(v, 1, Len(v) - 1)) ELSE v

I64(k) == [neg |-> k < 0, mag |-> Digits(IF k < 0 THEN -k ELSE k)]

Rest(v) == IF v = <<>> THEN <<>> ELSE Tail(v)
Digit(v) == IF v = <<>> THEN 0 ELSE Head(v)

RECURSIVE MagAdd(_, _, _)
MagAdd(x, y, carry) ==
    IF x = <<>> /\ y = <<>> THEN (IF carry = 0 THEN <<>> ELSE <<carry>>)
    ELSE LET s == Digit(x) + Digit(y) + carry
         IN <<s % 256>> \o MagAdd(Rest(x), Rest(y), s \div 256)

\* x - y for x >= y, leading zero digits included
RECURSIVE MagSub(_, _, _)
MagSub(x, y, borrow) ==
    IF x = <<>> THEN <<>>
    ELSE LET d == Head(x) - Digit(y) - borrow
         IN <<d % 256>> \o MagSub(Tail(x), Rest(y), IF d < 0 THEN 1 ELSE 0)

MagLess(x, y) ==
    \/ Len(x) < Len(y)
    \/ /\ Len(x) = Len(y)
       /\ \E i \in 1..Len(x) : x[i] < y[i] /\ \A j \in (i + 1)..Len(x) : x[j] = y[j]

\* 2^63 as a magnitude: an i64 holds the numbers of smaller magnitude (and -2^63)
TwoTo63 == <<0, 0, 0, 0, 0, 0, 0, 128>>

\* the sum does not fit an i64: a + b panics in a debug build (and wraps in a
\* release build)
i64_overflows(n) == ~MagLess(n.mag, TwoTo63)

\* a + b as an integer
i64_add(a, b) ==
    IF a.neg = b.neg THEN [neg |-> a.neg, mag |-> MagAdd(a.mag, b.mag, 0)]
    ELSE IF a.mag = b.mag THEN I64(0)
    ELSE IF MagLess(a.mag, b.mag)
    THEN [neg |-> b.neg, mag |-> Strip(MagSub(b.mag, a.mag, 0))]
    ELSE [neg |-> a.neg, mag |-> Strip(MagSub(a.mag, b.mag, 0))]

(***************************************************************************)
(* Scriptnum and boolean codecs called by the Stack.                        *)
(***************************************************************************)
\* little-endian value of the bytes of v
RECURSIVE LittleEndian(_)
LittleEndian(v) == IF v = <<>> THEN 0 ELSE Head(v) + 256 * LittleEndian(Tail(v))

\* mutant of scriptint_ok: every item that fits the i64 is accepted
scriptint_ok_Wide(v) == Len(v) <= BufLen

\* script::read_scriptint_non_minimal: Ok(0) on empty, an error above 4 bytes
scriptint_ok(v) == Len(v) <= MaxScriptIntLen

\* scriptint_parse: the little-endian sum of the bytes; when the top bit of the
\* last byte is set, that bit is masked off and the value negated
scriptint_parse(v) ==
    IF v = <<>> THEN I64(0)
    ELSE LET last == v[Len(v)]
             masked == Strip([v EXCEPT ![Len(v)] = last % 128])
         IN IF last >= 128 THEN [neg |-> masked # <<>>, mag |-> masked]
            ELSE [neg |-> FALSE, mag |-> Strip(v)]

\* script::write_scriptint: the bytes written to the buffer, buf[0..written]:
\* nothing for 0; else the bytes of abs, least significant first, while abs > 0xFF,
\* then the last byte, followed by a sign byte when its top bit is taken
write_scriptint(n) ==
    IF n.mag = <<>> THEN <<>>
    ELSE LET len == Len(n.mag)
             abs == n.mag[len]
         IN IF abs >= 128 THEN n.mag \o <<IF n.neg THEN 128 ELSE 0>>
            ELSE [n.mag EXCEPT ![len] = IF n.neg THEN abs + 128 ELSE abs]

\* script::read_scriptbool
read_scriptbool(v) ==
    IF v = <<>> THEN FALSE
    ELSE LET last == v[Len(v)]
             rest == SubSeq(v, 1, Len(v) - 1)
         IN ~((last % 128 = 0) /\ (\A i \in 1..Len(rest) : rest[i] = 0))

(***************************************************************************)
(* Stack                                                                    *)
(***************************************************************************)
push(items, bytes) == Append(items, bytes)

\* write_scriptint indexes the buffer past its end: the call panics
push_num_panics(x) == Len(write_scriptint(x)) > BufLen

\* mutant of push_num: the slice pushed is one byte longer, &buf[0..=written]
push_num_OneMore(items, x) == push(items, write_scriptint(x) \o <<0>>)

push_num(items, x) == push(items, write_scriptint(x))

push_bool(items, x) == IF x THEN push(items, <<1>>) ELSE push(items, <<>>)

\* mutant of pop_num: the item is decoded whatever its length
pop_num_AnyLength(items) ==
    IF items = <<>>
    THEN [items |-> items, err |-> "StackUnderflow", val |-> I64(0)]
    ELSE [items |-> SubSeq(items, 1, Len(items) - 1), err |-> "none",
          val |-> scriptint_parse(items[Len(items)])]

\* the stack after the call, the error ("none" on Ok) and the number returned
pop_num(items) ==
    IF items = <<>>
    THEN [items |-> items, err |-> "StackUnderflow", val |-> I64(0)]
    ELSE LET item == items[Len(items)]
             rest == SubSeq(items, 1, Len(items) - 1)
         IN IF scriptint_ok(item)
            THEN [items |-> rest, err |-> "none", val |-> scriptint_parse(item)]
            ELSE [items |-> rest, err |-> "InvalidNumericEncoding", val |-> I64(0)]

top(items) == IF items = <<>> THEN <<>> ELSE items[Len(items)]

\* mutant of is_true: "the stack is non-empty"
is_true_NonEmpty(items) == items # <<>>

\* mutant of is_true: the top item is decoded as a number and compared with zero
is_true_ViaScriptint(items) ==
    items # <<>> /\ scriptint_ok(top(items)) /\ scriptint_parse(top(items)) # I64(0)

is_true(items) == IF items = <<>> THEN FALSE ELSE read_scriptbool(top(items))

(***************************************************************************)
(* The Instructions iterator of the script (Script::instructions).          *)
(***************************************************************************)
InsEnd == [kind |-> "End", op |-> 0, data |-> <<>>, next |-> 0]
InsErr == [kind |-> "Err", op |-> 0, data |-> <<>>, next |-> 0]
InsOp(byte, q) == [kind |-> "Op", op |-> byte, data |-> <<>>, next |-> q]
InsPush(s, q, n) ==
    IF Len(s) - q >= n
    THEN [kind |-> "PushBytes", op |-> 0, data |-> SubSeq(s, q + 1, q + n), next |-> q + n]
    ELSE InsErr

PushDataLenLen(byte) ==
    IF byte = OP_PUSHDATA1 THEN 1 ELSE IF byte = OP_PUSHDATA2 THEN 2 ELSE 4

\* the item the iterator yields after p consumed bytes
NextIns(s, p) ==
    IF p >= Len(s) THEN InsEnd
    ELSE LET byte == s[p + 1]
             q == p + 1
         IN IF byte <= OP_PUSHBYTES_75 THEN InsPush(s, q, byte)
            ELSE IF byte \in {OP_PUSHDATA1, OP_PUSHDATA2, OP_PUSHDATA4}
            THEN LET w == PushDataLenLen(byte)
                 IN IF Len(s) - q < w THEN InsErr
                    ELSE InsPush(s, q + w, LittleEndian(SubSeq(s, q + 1, q + w)))
            ELSE InsOp(byte, q)

(***************************************************************************)
(* Interpreter                                                              *)
(***************************************************************************)
\* the argument of push_num in the constant arms of the match
IsPushNum(op) == op = OP_PUSHNUM_NEG1 \/ (op >= OP_PUSHNUM_1 /\ op <= OP_PUSHNUM_16)

\* mutant of PushNumArg: the constants are counted from OP_PUSHNUM_1 = 0
PushNumArg_FromZero(op) == IF op = OP_PUSHNUM_NEG1 THEN -1 ELSE op - OP_PUSHNUM_1

PushNumArg(op) == IF op = OP_PUSHNUM_NEG1 THEN -1 ELSE op - OP_PUSHNUM_1 + 1

\* the opcodes that fall to the last arm of the match
IsOther(op) == ~IsPushNum(op) /\ op \notin {OP_RETURN, OP_ADD, OP_SUB, OP_EQUAL}

\* mutant of add: a - b
add_Subtracts(items) ==
    LET a == pop_num(items)
    IN IF a.err # "none" THEN [items |-> a.items, err |-> a.err]
       ELSE LET b == pop_num(a.items)
                minus_b == [neg |-> ~b.val.neg /\ b.val.mag # <<>>, mag |-> b.val.mag]
            IN IF b.err # "none" THEN [items |-> b.items, err |-> b.err]
               ELSE [items |-> push_num(b.items, i64_add(a.val, minus_b)), err |-> "none"]

\* mutant of add: the depth is checked first and a failure leaves the stack alone
add_Atomic(items) ==
    LET a == pop_num(items)
        b == pop_num(a.items)
    IN IF Len(items) < 2 THEN [items |-> items, err |-> "StackUnderflow"]
       ELSE IF a.err # "none" THEN [items |-> items, err |-> a.err]
       ELSE IF b.err # "none" THEN [items |-> items, err |-> b.err]
       ELSE [items |-> push_num(b.items, i64_add(a.val, b.val)), err |-> "none"]

\* Interpreter::add: the stack after the call and the error ("none" on Ok, "Panic"
\* when the addition or the write to the buffer panics)
add(items) ==
    LET a == pop_num(items)
    IN IF a.err # "none" THEN [items |-> a.items, err |-> a.err]
       ELSE LET b == pop_num(a.items)
                res == i64_add(a.val, b.val)
            IN IF b.err # "none" THEN [items |-> b.items, err |-> b.err]
               ELSE IF i64_overflows(res) \/ push_num_panics(res)
               THEN [items |-> b.items, err |-> "Panic"]
               ELSE [items |-> push_num(b.items, res), err |-> "none"]

\* mutant of equal: the two items are compared as raw bytes
equal_RawBytes(items) ==
    LET a == pop_num(items)
    IN IF a.err # "none" THEN [items |-> a.items, err |-> a.err]
       ELSE LET b == pop_num(a.items)
            IN IF b.err # "none" THEN [items |-> b.items, err |-> b.err]
               ELSE [items |-> push_bool(b.items, items[Len(items)] = items[Len(items) - 1]),
                     err |-> "none"]

\* Interpreter::equal
equal(items) ==
    LET a == pop_num(items)
    IN IF a.err # "none" THEN [items |-> a.items, err |-> a.err]
       ELSE LET b == pop_num(a.items)
            IN IF b.err # "none" THEN [items |-> b.items, err |-> b.err]
               ELSE [items |-> push_bool(b.items, a.val = b.val), err |-> "none"]

\* mutant of join_parts: the locking script is chained first
join_parts_Swapped(sig, pubkey) == pubkey \o sig

\* lib.rs join_parts
join_parts(sig, pubkey) == sig \o pubkey

\* Interpreter::script_is_valid: the match on the result of execute_script
script_is_valid(res) == IF res.kind = "Ok" THEN res.val ELSE FALSE

Ins == NextIns(script, pos)

\* Interpreter::execute_script as a function: the outcome of the loop over the
\* instructions of s from byte p on, entered with the stack stk
RECURSIVE execute_script(_, _, _)
execute_script(s, p, stk) ==
    LET ins == NextIns(s, p)
    IN IF ins.kind = "End"
       THEN [state |-> "Succeeded", result |-> Ok(is_true(stk)), stack |-> stk]
       ELSE IF ins.kind = "Err"
       THEN [state |-> "Failed", result |-> Err("DecodeError"), stack |-> stk]
       ELSE IF ins.kind = "PushBytes" THEN execute_script(s, ins.next, push(stk, ins.data))
       ELSE IF ins.op = OP_RETURN
       THEN [state |-> "Failed", result |-> Err("ExplicitAbort"), stack |-> stk]
       ELSE IF IsPushNum(ins.op)
       THEN execute_script(s, ins.next, push_num(stk, I64(PushNumArg(ins.op))))
       ELSE IF ins.op \in {OP_ADD, OP_EQUAL}
       THEN LET r == IF ins.op = OP_ADD THEN add(stk) ELSE equal(stk)
            IN IF r.err = "none" THEN execute_script(s, ins.next, r.items)
               ELSE IF r.err = "Panic"
               THEN [state |-> "Panicked", result |-> Pending, stack |-> r.items]
               ELSE [state |-> "Failed", result |-> Err(r.err), stack |-> r.items]
       ELSE [state |-> "Panicked", result |-> Pending, stack |-> stk]

\* what no step of one call changes: the arguments and the record of earlier calls
Inputs == <<script_sig, script_pubkey, entry, script, calls, prev>>

\* Instruction::PushBytes(p) => self.stack.push(p.as_bytes()).  The iterator yields
\* the byte 0x00 as a push of no bytes, never as Op(OP_PUSHBYTES_0): that arm of
\* the match, which pushes the same empty item, is not reached.
PushBytes ==
    /\ state = "Running"
    /\ Ins.kind = "PushBytes"
    /\ stack' = push(stack, Ins.data)
    /\ pos' = Ins.next
    /\ executed' = executed + 1
    /\ UNCHANGED <<Inputs, state, result, ret>>

\* mutant of DecodeError: the Err item ends the loop as if the stream were over
DecodeError_EndsLoop ==
    /\ state = "Running"
    /\ Ins.kind = "Err"
    /\ state' = "Succeeded"
    /\ result' = Ok(is_true(stack))
    /\ pos' = Len(script)
    /\ UNCHANGED <<Inputs, stack, ret, executed>>

\* ins? on an Err item of the iterator
DecodeError ==
    /\ state = "Running"
    /\ Ins.kind = "Err"
    /\ state' = "Failed"
    /\ result' = Err("DecodeError")
    /\ pos' = Len(script)
    /\ UNCHANGED <<Inputs, stack, ret, executed>>

\* mutant of OpReturn: OP_RETURN does nothing and the loop goes on
OpReturn_Continues ==
    /\ state = "Running"
    /\ Ins.kind = "Op" /\ Ins.op = OP_RETURN
    /\ pos' = Ins.next
    /\ executed' = executed + 1
    /\ UNCHANGED <<Inputs, stack, state, result, ret>>

\* OP_RETURN => bail!("OP_RETURN")
OpReturn ==
    /\ state = "Running"
    /\ Ins.kind = "Op" /\ Ins.op = OP_RETURN
    /\ state' = "Failed"
    /\ result' = Err("ExplicitAbort")
    /\ pos' = Ins.next
    /\ executed' = executed + 1
    /\ UNCHANGED <<Inputs, stack, ret>>

\* OP_PUSHNUM_NEG1, OP_PUSHNUM_1 .. OP_PUSHNUM_16 => self.stack.push_num(k)
PushNum ==
    /\ state = "Running"
    /\ Ins.kind = "Op" /\ IsPushNum(Ins.op)
    /\ stack' = push_num(stack, I64(PushNumArg(Ins.op)))
    /\ pos' = Ins.next
    /\ executed' = executed + 1
    /\ UNCHANGED <<Inputs, state, result, ret>>

\* OP_ADD => self.add()?
OpAdd ==
    /\ state = "Running"
    /\ Ins.kind = "Op" /\ Ins.op = OP_ADD
    /\ LET r == add(stack)
       IN /\ stack' = r.items
          /\ state' = IF r.err = "none" THEN "Running"
                      ELSE IF r.err = "Panic" THEN "Panicked" ELSE "Failed"
          /\ result' = IF r.err \in {"none", "Panic"} THEN result ELSE Err(r.err)
    /\ pos' = Ins.next
    /\ executed' = executed + 1
    /\ UNCHANGED <<Inputs, ret>>

\* OP_EQUAL => self.equal()?
OpEqual ==
    /\ state = "Running"
    /\ Ins.kind = "Op" /\ Ins.op = OP_EQUAL
    /\ LET r == equal(stack)
       IN /\ stack' = r.items
          /\ state' = IF r.err = "none" THEN "Running" ELSE "Failed"
          /\ result' = IF r.err = "none" THEN result ELSE Err(r.err)
    /\ pos' = Ins.next
    /\ executed' = executed + 1
    /\ UNCHANGED <<Inputs, ret>>

\* OP_SUB => todo!()
OpSub ==
    /\ state = "Running"
    /\ Ins.kind = "Op" /\ Ins.op = OP_SUB
    /\ state' = "Panicked"
    /\ pos' = Ins.next
    /\ executed' = executed + 1
    /\ UNCHANGED <<Inputs, stack, result, ret>>

\* other => panic!("opcode not yet supported: ..")
OpOther ==
    /\ state = "Running"
    /\ Ins.kind = "Op" /\ IsOther(Ins.op)
    /\ state' = "Panicked"
    /\ pos' = Ins.next
    /\ executed' = executed + 1
    /\ UNCHANGED <<Inputs, stack, result, ret>>

\* the loop ends: Ok(self.stack.is_true())
Finish ==
    /\ state = "Running"
    /\ Ins.kind = "End"
    /\ state' = "Succeeded"
    /\ result' = Ok(is_true(stack))
    /\ UNCHANGED <<Inputs, stack, pos, ret, executed>>

\* lib.rs execute returns interpreter.execute_script()
ExecuteReturn ==
    /\ entry = "execute"
    /\ state \in {"Failed", "Succeeded"}
    /\ ret = Pending
    /\ ret' = result
    /\ UNCHANGED <<Inputs, stack, pos, state, result, executed>>

\* lib.rs is_valid returns interpreter.script_is_valid()
IsValidReturn ==
    /\ entry = "is_valid"
    /\ state \in {"Failed", "Succeeded"}
    /\ ret = Pending
    /\ ret' = Bool(script_is_valid(result))
    /\ UNCHANGED <<Inputs, stack, pos, state, result, executed>>

Next ==
    \/ PushBytes
    \/ DecodeError
    \/ OpReturn
    \/ PushNum
    \/ OpAdd
    \/ OpEqual
    \/ OpSub
    \/ OpOther
    \/ Finish
    \/ ExecuteReturn
    \/ IsValidReturn

\* the state after join_parts and Interpreter::new, on entry to execute_script
Start(sig, pubkey, e) ==
    /\ script_sig = sig
    /\ script_pubkey = pubkey
    /\ entry = e
    /\ script = join_parts(sig, pubkey)
    /\ stack = <<>>
    /\ pos = 0
    /\ state = "Running"
    /\ result = Pending
    /\ ret = Pending
    /\ executed = 0
    /\ calls = 1
    /\ prev = [result |-> Pending, executed |-> 0]

(***************************************************************************)
(* Spec: every pair of scripts over a small byte alphabet.                  *)
(***************************************************************************)
\* OP_0, push 1, push 2, OP_1, OP_RETURN, OP_LEFT, OP_EQUAL, OP_ADD, OP_SUB
Bytes == {0, 1, 2, OP_PUSHNUM_1, OP_RETURN, OP_LEFT, OP_EQUAL, OP_ADD, OP_SUB}

Init ==
    \E s \in BSeq(Bytes, MaxScriptLen) : \E k \in 0..Len(s) : \E e \in {"execute", "is_valid"} :
        Start(SubSeq(s, 1, k), SubSeq(s, k + 1, Len(s)), e)

Spec == Init /\ [][Next]_vars

\* the same executions, run to their end: the loop and the entry point are
\* sequential code that nothing suspends, so a step that can be taken is taken
SpecFair == Init /\ [][Next]_vars /\ WF_vars(Next)

(***************************************************************************)
(* SpecReuse: a caller builds one Interpreter with Interpreter::new and     *)
(* calls execute_script (entry "execute") or script_is_valid (entry         *)
(* "is_valid") on it up to MaxCalls times.                                  *)
(***************************************************************************)
\* one more call on the same Interpreter after the previous call returned: a new
\* Instructions iterator over self.script; self.stack is what the last call left
ExecuteScriptAgain ==
    /\ state \in {"Failed", "Succeeded"}
    /\ ret # Pending
    /\ calls < MaxCalls
    /\ \E e \in {"execute", "is_valid"} : entry' = e
    /\ calls' = calls + 1
    /\ prev' = [result |-> result, executed |-> executed]
    /\ pos' = 0
    /\ state' = "Running"
    /\ result' = Pending
    /\ ret' = Pending
    /\ executed' = 0
    /\ UNCHANGED <<script_sig, script_pubkey, script, stack>>

NextReuse ==
    \/ Next
    \/ ExecuteScriptAgain

\* Interpreter::new(script) and the first call
InitReuse ==
    \E s \in BSeq(Bytes, MaxReuseLen) : \E e \in {"execute", "is_valid"} : Start(<<>>, s, e)

SpecReuse == InitReuse /\ [][NextReuse]_vars

(***************************************************************************)
(* SpecData: the unlocking script pushes up to MaxPushes data items, the    *)
(* locking script is one of a fixed set of programs.                        *)
(***************************************************************************)
\* the direct push of an item of at most 75 bytes
PushIns(item) == <<Len(item)>> \o item

Items == {<<>>, <<0>>, <<128>>, <<1>>, <<2>>, <<3>>, <<5>>, <<129>>, <<2, 0>>,
          <<0, 0, 0, 129>>, <<255, 255, 255, 127>>, <<0, 0, 0, 0, 1>>}

Locks == {<<OP_ADD>>, <<OP_EQUAL>>, <<OP_ADD, OP_EQUAL>>, <<OP_ADD, OP_ADD>>,
          <<OP_PUSHNUM_NEG1, OP_ADD>>, <<OP_RETURN>>, <<OP_SUB>>, <<OP_LEFT>>, <<1>>}

PushScript(items) == Flatten([i \in 1..Len(items) |-> PushIns(items[i])])

InitData ==
    \E items \in BSeq(Items, MaxPushes) : \E lock \in Locks : \E e \in {"execute", "is_valid"} :
        Start(PushScript(items), lock, e)

SpecData == InitData /\ [][Next]_vars

(***************************************************************************)
(* SpecBool: up to MaxBoolPushes items, zero-like and not, short and longer *)
(* than a scriptnum, are pushed; the locking script is empty or one of      *)
(* Locks.                                                                   *)
(***************************************************************************)
BoolItems == {<<>>, <<0>>, <<128>>, <<1>>, <<0, 128>>, <<128, 0>>, <<0, 0, 0, 0, 0>>,
              <<0, 0, 0, 0, 128>>, <<0, 0, 0, 0, 1>>, <<0, 1, 0, 0, 0, 128>>}

InitBool ==
    \E items \in BSeq(BoolItems, MaxBoolPushes) : \E lock \in Locks \cup {<<>>} :
        \E e \in {"execute", "is_valid"} : Start(PushScript(items), lock, e)

SpecBool == InitBool /\ [][Next]_vars

(***************************************************************************)
(* SpecConst: every script of at most MaxConstLen bytes over the push       *)
(* opcodes (OP_0, two direct pushes, OP_PUSHDATA1, OP_1NEGATE, OP_1 ..      *)
(* OP_16) and the other opcodes of Bytes.                                   *)
(***************************************************************************)
ConstBytes ==
    {0, 1, 2, OP_PUSHDATA1, OP_PUSHNUM_NEG1} \cup (OP_PUSHNUM_1..OP_PUSHNUM_16)
        \cup {OP_RETURN, OP_LEFT, OP_EQUAL, OP_ADD, OP_SUB}

InitConst ==
    \E s \in BSeq(ConstBytes, MaxConstLen) : \E e \in {"execute", "is_valid"} : Start(<<>>, s, e)

SpecConst == InitConst /\ [][Next]_vars

(***************************************************************************)
(* SpecChain: the unlocking script pushes two items, the locking script is  *)
(* OP_ADD followed by up to MaxChain links, a link being a push and an      *)
(* OP_ADD or one of a few other programs.                                   *)
(***************************************************************************)
ChainLinks ==
    {PushIns(c) \o <<OP_ADD>> : c \in Items}
        \cup {<<OP_PUSHNUM_16, OP_ADD>>, <<OP_EQUAL>>, <<OP_RETURN>>, <<OP_SUB>>, <<OP_LEFT>>,
               <<OP_PUSHDATA1>>}

InitChain ==
    \E a \in Items, b \in Items : \E links \in BSeq(ChainLinks, MaxChain) :
        \E e \in {"execute", "is_valid"} :
            Start(PushScript(<<a, b>>), <<OP_ADD>> \o Flatten(links), e)

SpecChain == InitChain /\ [][Next]_vars

(***************************************************************************)
(* Definitions the properties share.                                        *)
(***************************************************************************)
\* the instruction about to be dispatched is the opcode op
AtOp(op) == state = "Running" /\ Ins.kind = "Op" /\ Ins.op = op

\* the opcodes execute_script has a handler for
Handled(op) == IsPushNum(op) \/ op \in {OP_RETURN, OP_ADD, OP_EQUAL}

\* the integer an item of at most 4 bytes stands for: a little-endian magnitude
\* with the sign in the top bit of the last byte
Magnitude(v) ==
    LittleEndian([i \in 1..Len(v) |-> IF i = Len(v) THEN v[i] % 128 ELSE v[i]])

NumValue(v) ==
    IF v = <<>> THEN 0
    ELSE IF v[Len(v)] >= 128 THEN -Magnitude(v) ELSE Magnitude(v)

\* the same integer modulo m, for items of any length (m below 2^23)
RECURSIVE MagnitudeMod(_, _)
MagnitudeMod(v, m) ==
    IF v = <<>> THEN 0
    ELSE IF Len(v) = 1 THEN (v[1] % 128) % m
    ELSE (Head(v) + 256 * MagnitudeMod(Tail(v), m)) % m

NumValueMod(v, m) ==
    IF v = <<>> THEN 0
    ELSE IF v[Len(v)] >= 128 THEN (m - MagnitudeMod(v, m)) % m ELSE MagnitudeMod(v, m)

\* two coprime moduli with a product above 2^39: integers of at most 5 bytes
\* that agree modulo both are equal
Moduli == {1048576, 1048575}

\* no redundant trailing 0x00 / 0x80 byte
IsMinimal(v) ==
    \/ v = <<>>
    \/ v[Len(v)] % 128 # 0
    \/ (Len(v) > 1 /\ v[Len(v) - 1] >= 128)

\* the number of well-formed instructions before the first malformed one, -1 if none
RECURSIVE Malformed(_, _, _)
Malformed(s, p, n) ==
    LET i == NextIns(s, p)
    IN IF i.kind = "End" THEN -1
       ELSE IF i.kind = "Err" THEN n
       ELSE Malformed(s, i.next, n + 1)

\* an item is boolean-true: some byte is non-zero, the sign bit of the last aside
ItemTrue(v) ==
    \E i \in 1..Len(v) : IF i = Len(v) THEN v[i] \notin {0, 128} ELSE v[i] # 0

(***************************************************************************)
(* C1: when execution reaches an opcode that has no handler (OP_SUB         *)
(* included), execute returns Err of the unsupported-opcode kind, and no    *)
(* panic state is reachable.                                                *)
(***************************************************************************)
C1_UnsupportedOpcodeIsErr ==
    /\ [](state # "Panicked")
    /\ [][(state = "Running" /\ Ins.kind = "Op" /\ ~Handled(Ins.op))
            => (state' = "Failed" /\ result' = Err("UnsupportedOpcode"))]_vars

(***************************************************************************)
(* C2: is_valid is total: it never fails itself, and the boolean it returns *)
(* is true exactly when execute_script on the same pair returned Ok(true).  *)
(***************************************************************************)
C2_IsValidTotal ==
    entry = "is_valid" =>
        /\ state # "Panicked"
        /\ ret # Pending => ret = Bool(result = Ok(TRUE))

(***************************************************************************)
(* C3: whenever OP_RETURN is executed, whatever the stack holds and         *)
(* whatever follows it in the script, execute returns Err and is_valid      *)
(* returns false.                                                           *)
(***************************************************************************)
C3_OpReturnAborts ==
    /\ [][AtOp(OP_RETURN) => (state' = "Failed" /\ result' = Err("ExplicitAbort"))]_vars
    /\ []((result = Err("ExplicitAbort") /\ ret # Pending)
            => ret = (IF entry = "execute" THEN Err("ExplicitAbort") ELSE Bool(FALSE)))

\* OP_RETURN ran on a non-empty stack with bytes still behind it; is_valid said false
C3_Witness ==
    /\ result = Err("ExplicitAbort")
    /\ stack # <<>>
    /\ pos < Len(script)
    /\ ret = Bool(FALSE)

(***************************************************************************)
(* C4: when every instruction completes without failure, execute returns    *)
(* Ok(b), b true iff the final stack is non-empty and its top item is       *)
(* boolean-true; the empty script gives Ok(false), and so does a final      *)
(* stack whose top item is zero.                                            *)
(***************************************************************************)
C4_OkIsTopTruth ==
    /\ state = "Succeeded" =>
          /\ result = Ok(stack # <<>> /\ ItemTrue(stack[Len(stack)]))
          /\ (script = <<>> => result = Ok(FALSE))
    /\ (entry = "execute" /\ state = "Succeeded" /\ ret # Pending) => ret = result

\* a script ended on a non-empty stack whose top item is zero: Ok(false)
C4_Witness ==
    /\ state = "Succeeded"
    /\ stack # <<>>
    /\ ~ItemTrue(stack[Len(stack)])
    /\ ret = Ok(FALSE)

(***************************************************************************)
(* C9: a decode error in the instruction stream makes execute return Err    *)
(* and is_valid return false.  Decoding is lazy: the instructions before    *)
(* the malformed one are executed first, an earlier failure is the one      *)
(* reported, and the decode error is reported only after the prefix ran     *)
(* without failure.                                                         *)
(***************************************************************************)
C9_DecodeErrorLazy ==
    /\ [][(state = "Running" /\ Ins.kind = "Err")
            => (state' = "Failed" /\ result' = Err("DecodeError") /\ stack' = stack)]_vars
    /\ [][(result' = Err("DecodeError") /\ result # result') => state = "Running"]_vars
    /\ [](LET m == Malformed(script, 0, 0)
          IN /\ result = Err("DecodeError") => (m >= 0 /\ executed = m)
             /\ m >= 0 => state # "Succeeded"
             /\ (m >= 0 /\ state = "Running" /\ executed = m) => Ins.kind = "Err"
             /\ (m >= 0 /\ state = "Failed" /\ result # Err("DecodeError")) => executed <= m
             /\ (result = Err("DecodeError") /\ ret # Pending)
                   => ret = (IF entry = "execute" THEN Err("DecodeError") ELSE Bool(FALSE)))

\* a malformed push was met after a prefix that ran, and is_valid said false
C9_Witness ==
    /\ result = Err("DecodeError")
    /\ executed > 0
    /\ stack # <<>>
    /\ ret = Bool(FALSE)

(***************************************************************************)
(* C10: fail-fast state machine: an execution is in exactly one of Running, *)
(* Failed, Succeeded; it starts in Running; the first instruction that      *)
(* cannot be completed moves it to Failed; Failed and Succeeded are         *)
(* terminal, nothing is executed and the stack is not modified after them;  *)
(* Succeeded is reached only when the whole stream was consumed.            *)
(***************************************************************************)
C10_FailFast ==
    /\ state = "Running"
    /\ [](state \in {"Running", "Failed", "Succeeded"})
    /\ [][(state \in {"Failed", "Succeeded"})
            => (state' = state /\ stack' = stack /\ executed' = executed /\ result' = result)]_vars
    /\ [][(state = "Running" /\ state' # "Running")
            => (state' = "Failed" \/ (state' = "Succeeded" /\ Ins.kind = "End"))]_vars
    /\ [](state = "Succeeded" => (pos = Len(script) /\ result.kind = "Ok"))

(***************************************************************************)
(* C5: for items x and y that decode as scriptnums a and b, OP_ADD on a     *)
(* stack whose top two items are x and y removes exactly those two, pushes  *)
(* the minimal scriptnum encoding of a+b and leaves the items below alone;  *)
(* swapping x and y gives the same result; the script push 5, push 2,       *)
(* push 3, ADD, EQUAL evaluates to true.                                    *)
(***************************************************************************)
AddExample == PushScript(<< <<5>>, <<2>>, <<3>> >>) \o <<OP_ADD, OP_EQUAL>>

C5_AddSums ==
    /\ [][(AtOp(OP_ADD) /\ Len(stack) >= 2
             /\ scriptint_ok(stack[Len(stack)]) /\ scriptint_ok(stack[Len(stack) - 1]))
            => LET n == Len(stack)
                   x == stack[n]
                   y == stack[n - 1]
                   below == SubSeq(stack, 1, n - 2)
               IN /\ state' = "Running"
                  /\ Len(stack') = n - 1
                  /\ SubSeq(stack', 1, n - 2) = below
                  /\ Len(stack'[n - 1]) <= MaxScriptIntLen + 1
                  /\ \A m \in Moduli : NumValueMod(stack'[n - 1], m)
                                          = (NumValueMod(x, m) + NumValueMod(y, m)) % m
                  /\ IsMinimal(stack'[n - 1])
                  /\ add(below \o <<x, y>>) = [items |-> stack', err |-> "none"]]_vars
    /\ []((script = AddExample /\ state = "Succeeded") => result = Ok(TRUE))

\* the example script ran to its end with two items under the sum during OP_ADD
C5_Witness ==
    /\ script = AddExample
    /\ state = "Succeeded"
    /\ result = Ok(TRUE)
    /\ stack = << <<1>> >>

(***************************************************************************)
(* C6: OP_EQUAL compares its operands as decoded numbers, not as raw bytes: *)
(* it pops both and pushes 0x01 when they decode to the same number and the *)
(* empty string otherwise; the empty string, 0x00 and 0x80 are all equal, a *)
(* non-minimal encoding equals the minimal one, and push 1, push 2, EQUAL   *)
(* is invalid.                                                              *)
(***************************************************************************)
ZeroForms == {<<>>, <<0>>, <<128>>}

EqualExample == PushScript(<< <<1>>, <<2>> >>) \o <<OP_EQUAL>>

C6_EqualIsNumeric ==
    /\ [][(AtOp(OP_EQUAL) /\ Len(stack) >= 2
             /\ scriptint_ok(stack[Len(stack)]) /\ scriptint_ok(stack[Len(stack) - 1]))
            => LET n == Len(stack)
                   x == stack[n]
                   y == stack[n - 1]
                   below == SubSeq(stack, 1, n - 2)
               IN /\ state' = "Running"
                  /\ stack' = Append(below, IF NumValue(x) = NumValue(y) THEN <<1>> ELSE <<>>)
                  /\ ({x, y} \subseteq ZeroForms => stack'[n - 1] = <<1>>)
                  /\ ({x, y} = {<<2, 0>>, <<2>>} => stack'[n - 1] = <<1>>)]_vars
    /\ []((script = EqualExample /\ state = "Succeeded") => result = Ok(FALSE))
    /\ []((script = EqualExample /\ entry = "is_valid" /\ ret # Pending) => ret = Bool(FALSE))

\* 0x00 and 0x80, different as bytes, compared equal
C6_Witness ==
    /\ script = PushScript(<< <<0>>, <<128>> >>) \o <<OP_EQUAL>>
    /\ state = "Succeeded"
    /\ stack = << <<1>> >>
    /\ result = Ok(TRUE)

(***************************************************************************)
(* C7: OP_ADD or OP_EQUAL on a stack of fewer than two items (zero or one)  *)
(* makes execute return Err of the stack-underflow kind; the depth of the   *)
(* stack never goes below zero.                                             *)
(***************************************************************************)
C7_UnderflowKind ==
    [][((AtOp(OP_ADD) \/ AtOp(OP_EQUAL)) /\ Len(stack) < 2)
         => (state' = "Failed" /\ result' = Err("StackUnderflow") /\ Len(stack') >= 0)]_vars

(***************************************************************************)
(* C8: an operation that needs N items fails atomically when fewer are      *)
(* present: when OP_ADD or OP_EQUAL fails on a stack holding one item, the  *)
(* stack after the failure is the stack before the instruction.             *)
(***************************************************************************)
C8_AtomicFailure ==
    [][((AtOp(OP_ADD) \/ AtOp(OP_EQUAL)) /\ Len(stack) < 2)
         => (state' = "Failed" /\ stack' = stack)]_vars

(***************************************************************************)
(* C11: every execution starts from an empty stack and nothing of the stack *)
(* persists from one execution to the next: on entry to each call of        *)
(* execute_script, the first on an Interpreter or a later one, the stack is *)
(* empty, not the stack the previous call left.                             *)
(***************************************************************************)
C11_StartsEmpty ==
    /\ (state = "Running" /\ executed = 0) => stack = <<>>
    /\ (calls > 1 /\ state = "Running") => Len(stack) <= executed

(***************************************************************************)
(* C12: is_true() is false on an empty stack; on a non-empty stack it is    *)
(* false exactly when the top item is empty or is all zero bytes with a     *)
(* last byte of 0x00 or 0x80 (empty, 0x00 and 0x80 are false, 0x01 is       *)
(* true), whatever the length of the item, longer than a scriptnum          *)
(* included; it never modifies the stack.                                   *)
(***************************************************************************)
ZeroLike(v) ==
    \/ v = <<>>
    \/ /\ \A i \in 1..(Len(v) - 1) : v[i] = 0
       /\ v[Len(v)] \in {0, 128}

C12_IsTrue ==
    /\ [][(state = "Running" /\ Ins.kind = "End")
            => /\ stack' = stack
               /\ stack = <<>> => result' = Ok(FALSE)
               /\ stack # <<>> => result' = Ok(~ZeroLike(stack[Len(stack)]))
               /\ (stack # <<>> /\ stack[Len(stack)] \in ZeroForms) => result' = Ok(FALSE)
               /\ (stack # <<>> /\ stack[Len(stack)] = <<1>>) => result' = Ok(TRUE)]_vars
    /\ [](is_true(stack) = (stack # <<>> /\ ~ZeroLike(stack[Len(stack)])))

\* is_true said false of a zero-like top item longer than a scriptnum, the stack kept
C12_Witness ==
    /\ state = "Succeeded"
    /\ stack = << <<1>>, <<0, 0, 0, 0, 128>> >>
    /\ result = Ok(FALSE)

(***************************************************************************)
(* Definitions of the scriptnum round trip (C13, C16, C19).                 *)
(***************************************************************************)
\* the instruction of s that ends after p consumed bytes, scanning from q
RECURSIVE InsBefore(_, _, _)
InsBefore(s, q, p) ==
    LET i == NextIns(s, q)
    IN IF i.kind \in {"End", "Err"} THEN InsEnd
       ELSE IF i.next = p THEN i
       ELSE InsBefore(s, i.next, p)

\* the instruction dispatched last was an opcode that calls push_num
AfterPushNum ==
    LET i == InsBefore(script, 0, pos)
    IN pos > 0 /\ i.kind = "Op" /\ (IsPushNum(i.op) \/ i.op = OP_ADD)

\* the instruction about to be dispatched calls push_num
PushesNum ==
    \/ AtOp(OP_ADD) /\ Len(stack) >= 2
          /\ scriptint_ok(stack[Len(stack)]) /\ scriptint_ok(stack[Len(stack) - 1])
    \/ state = "Running" /\ Ins.kind = "Op" /\ IsPushNum(Ins.op)

\* the number it passes to push_num
PushedNum ==
    IF Ins.op = OP_ADD
    THEN i64_add(scriptint_parse(stack[Len(stack)]), scriptint_parse(stack[Len(stack) - 1]))
    ELSE I64(PushNumArg(Ins.op))

\* the stack it calls push_num on
PushedOn == IF Ins.op = OP_ADD THEN SubSeq(stack, 1, Len(stack) - 2) ELSE stack

\* 2^31 as a magnitude; |n| <= 2^31 - 1
TwoTo31 == <<0, 0, 0, 128>>

InScriptIntRange(n) == MagLess(n.mag, TwoTo31)

\* the first pop_num of the ADD / EQUAL being dispatched rejects the item it popped
FirstPopRejects ==
    /\ state' = "Failed"
    /\ result' = Err("InvalidNumericEncoding")
    /\ Len(stack') = Len(stack) - 1

(***************************************************************************)
(* C13 as stated: for every integer n that push_num can encode, push_num(n) *)
(* followed by pop_num() returns Ok(n) and leaves the stack as it was       *)
(* before the push; zero is encoded as the empty string and every encoding  *)
(* push_num emits is minimal.                                               *)
(***************************************************************************)
C13_RoundTrip ==
    /\ [][PushesNum
            => LET r == pop_num(stack')
               IN /\ stack' = push_num(PushedOn, PushedNum)
                  /\ r = [items |-> PushedOn, err |-> "none", val |-> PushedNum]
                  /\ (PushedNum = I64(0)) <=> (stack'[Len(stack')] = <<>>)
                  /\ IsMinimal(stack'[Len(stack')])]_vars
    /\ [][(AfterPushNum /\ (AtOp(OP_ADD) \/ AtOp(OP_EQUAL))) => ~FirstPopRejects]_vars

(***************************************************************************)
(* C13 amended: the round trip holds for every n with |n| <= 2^31 - 1, the  *)
(* numbers push_num encodes in at most 4 bytes; a larger n (OP_ADD passes   *)
(* sums up to 2^32 - 2, encoded in 5 bytes) is popped by pop_num and        *)
(* rejected as an invalid number.  Zero is encoded as the empty string and  *)
(* every encoding push_num emits is minimal.                                *)
(***************************************************************************)
C13_RoundTripInRange ==
    /\ [][PushesNum
            => LET r == pop_num(stack')
                   item == stack'[Len(stack')]
               IN /\ stack' = push_num(PushedOn, PushedNum)
                  /\ InScriptIntRange(PushedNum) <=> Len(item) <= MaxScriptIntLen
                  /\ r = IF InScriptIntRange(PushedNum)
                         THEN [items |-> PushedOn, err |-> "none", val |-> PushedNum]
                         ELSE [items |-> PushedOn, err |-> "InvalidNumericEncoding",
                               val |-> I64(0)]
                  /\ (PushedNum = I64(0)) <=> (item = <<>>)
                  /\ IsMinimal(item)]_vars
    /\ [][(AfterPushNum /\ (AtOp(OP_ADD) \/ AtOp(OP_EQUAL)))
            => (FirstPopRejects <=> Len(stack[Len(stack)]) > MaxScriptIntLen)]_vars

\* the sum 5 pushed by the first OP_ADD was popped by the second and added to 5
C13_Witness ==
    /\ script = PushScript(<< <<5>>, <<2>>, <<3>> >>) \o <<OP_ADD, OP_ADD>>
    /\ state = "Succeeded"
    /\ stack = << <<10>> >>

(***************************************************************************)
(* C14: execute and is_valid run exactly the instruction stream decoded     *)
(* from the bytes unlocking ++ locking, with no separator and no reset of   *)
(* the stack at the join: the outcome is that of the single script made of  *)
(* those bytes, also when a push that starts in the unlocking bytes         *)
(* declares a length that reaches into the locking bytes, from which it     *)
(* then takes its payload.                                                  *)
(***************************************************************************)
C14_Concatenation ==
    /\ [](script = script_sig \o script_pubkey)
    /\ [](LET whole == execute_script(script_sig \o script_pubkey, 0, <<>>)
          IN /\ state # "Running"
                  => (state = whole.state /\ result = whole.result /\ stack = whole.stack)
             /\ ret # Pending
                  => ret = (IF entry = "execute" THEN whole.result
                            ELSE Bool(whole.result = Ok(TRUE))))
    /\ [][(state = "Running" /\ Ins.kind = "PushBytes" /\ script[pos + 1] <= OP_PUSHBYTES_75
             /\ pos < Len(script_sig) /\ Ins.next > Len(script_sig))
            => /\ state' = "Running"
               /\ stack' = Append(stack, SubSeq(script_sig, pos + 2, Len(script_sig))
                                            \o SubSeq(script_pubkey, 1, Ins.next - Len(script_sig)))]_vars

\* the push of one byte that ends the unlocking script took the locking script's
\* OP_ADD as its payload, which was therefore not executed
C14_Witness ==
    /\ script_sig = <<OP_PUSHNUM_1, 1>>
    /\ script_pubkey = <<OP_ADD>>
    /\ state = "Succeeded"
    /\ stack = << <<1>>, <<OP_ADD>> >>
    /\ ret = Ok(TRUE)

(***************************************************************************)
(* C15: push-class instructions never fail and only add one item: a         *)
(* push-bytes instruction pushes its payload bytes unchanged, OP_0 the      *)
(* empty string, OP_1NEGATE the byte 0x81 and OP_k, k in 1..16, the single  *)
(* byte k; the depth grows by exactly one and the items already on the      *)
(* stack are unchanged.                                                     *)
(***************************************************************************)
\* the payload of the well-formed push at pos: the bytes behind a direct push
\* opcode, or behind the length byte of OP_PUSHDATA1
Payload ==
    LET b == script[pos + 1]
    IN IF b <= OP_PUSHBYTES_75 THEN SubSeq(script, pos + 2, pos + 1 + b)
       ELSE SubSeq(script, pos + 3, pos + 2 + script[pos + 2])

C15_PushClass ==
    [][(state = "Running" /\ Ins.kind \in {"PushBytes", "Op"})
         => LET b == script[pos + 1]
                pushed == (state' = "Running" /\ result' = result
                             /\ Len(stack') = Len(stack) + 1
                             /\ SubSeq(stack', 1, Len(stack)) = stack)
            IN /\ Ins.kind = "PushBytes" => (pushed /\ stack'[Len(stack')] = Payload)
               /\ b = 0 => (pushed /\ stack'[Len(stack')] = <<>>)
               /\ b = OP_PUSHNUM_NEG1 => (pushed /\ stack'[Len(stack')] = <<129>>)
               /\ \A k \in 1..16 :
                     b = OP_PUSHNUM_1 + k - 1 => (pushed /\ stack'[Len(stack')] = <<k>>)]_vars

\* OP_1NEGATE then OP_16: 0x10 was pushed over 0x81, which stayed
C15_Witness ==
    /\ script = <<OP_PUSHNUM_NEG1, OP_PUSHNUM_16>>
    /\ state = "Succeeded"
    /\ stack = << <<129>>, <<16>> >>

(***************************************************************************)
(* Definitions of the addition chains (C16).                                *)
(***************************************************************************)
\* the items c1 .. ck when the bytes of s from p on are k times (push c, OP_ADD)
RECURSIVE Links(_, _)
Links(s, p) ==
    LET i == NextIns(s, p)
        j == NextIns(s, i.next)
    IN IF i.kind = "End" THEN [ok |-> TRUE, items |-> <<>>]
       ELSE IF i.kind = "PushBytes" /\ j.kind = "Op" /\ j.op = OP_ADD
       THEN LET r == Links(s, j.next) IN [ok |-> r.ok, items |-> <<i.data>> \o r.items]
       ELSE [ok |-> FALSE, items |-> <<>>]

\* the operands a, b, c1 .. ck when the script is push a, push b, OP_ADD and k
\* times (push c, OP_ADD), all of them decodable; no operand otherwise
ChainOperands ==
    LET i1 == NextIns(script, 0)
        i2 == NextIns(script, i1.next)
        i3 == NextIns(script, i2.next)
        r == Links(script, i3.next)
        ops == <<i1.data, i2.data>> \o r.items
    IN IF /\ i1.kind = "PushBytes" /\ i2.kind = "PushBytes"
          /\ i3.kind = "Op" /\ i3.op = OP_ADD /\ r.ok
          /\ \A n \in 1..Len(ops) : Len(ops[n]) <= MaxScriptIntLen
       THEN ops ELSE <<>>

\* the sum of the first n operands, as a number and modulo m
RECURSIVE Partial(_, _)
Partial(ops, n) ==
    IF n = 0 THEN I64(0) ELSE i64_add(Partial(ops, n - 1), scriptint_parse(ops[n]))

RECURSIVE PartialMod(_, _, _)
PartialMod(ops, n, m) ==
    IF n = 0 THEN 0 ELSE (PartialMod(ops, n - 1, m) + NumValueMod(ops[n], m)) % m

\* the stack holds one item, the minimal encoding of the sum of the operands
HoldsSum(ops) ==
    /\ Len(stack) = 1
    /\ IsMinimal(stack[1])
    /\ \A m \in Moduli : NumValueMod(stack[1], m) = PartialMod(ops, Len(ops), m)

\* the instruction dispatched last was OP_ADD
AfterAdd ==
    LET i == InsBefore(script, 0, pos)
    IN pos > 0 /\ i.kind = "Op" /\ i.op = OP_ADD

(***************************************************************************)
(* C16 as stated: addition chains match integer semantics: for all items    *)
(* that decode as a, b and c, the script push a, push b, ADD, push c, ADD   *)
(* completes without failure and leaves the encoding of a+b+c on top;       *)
(* every value that OP_ADD pushes can be consumed as an operand by a        *)
(* following OP_ADD or OP_EQUAL.                                            *)
(***************************************************************************)
C16_AddChain ==
    /\ [](LET ops == ChainOperands
          IN ops # <<>> => (state # "Failed" /\ (state = "Succeeded" => HoldsSum(ops))))
    /\ [][(AfterAdd /\ (AtOp(OP_ADD) \/ AtOp(OP_EQUAL))) => ~FirstPopRejects]_vars

(***************************************************************************)
(* C16 amended: the chain push a, push b, ADD, push c, ADD (and so on)      *)
(* completes and leaves the encoding of the whole sum on top provided each  *)
(* intermediate sum that a following OP_ADD consumes lies within            *)
(* -(2^31 - 1) .. 2^31 - 1; at the first intermediate sum outside that      *)
(* range (pushed as a 5-byte item) the next OP_ADD fails with the           *)
(* invalid-number error.  A value OP_ADD pushes can be consumed by a        *)
(* following OP_ADD or OP_EQUAL exactly when it is at most 4 bytes long.    *)
(***************************************************************************)
C16_AddChainInRange ==
    /\ [](LET ops == ChainOperands
              bad == {n \in 2..(Len(ops) - 1) : ~InScriptIntRange(Partial(ops, n))}
          IN ops # <<>>
               => IF bad = {}
                  THEN state # "Failed" /\ (state = "Succeeded" => HoldsSum(ops))
                  ELSE /\ state # "Succeeded"
                       /\ state = "Failed"
                            => /\ result = Err("InvalidNumericEncoding")
                               /\ \A n \in bad : executed <= 2 * n + 1
                               /\ \E n \in bad : executed = 2 * n + 1)
    /\ [][(AfterAdd /\ (AtOp(OP_ADD) \/ AtOp(OP_EQUAL)))
            => (FirstPopRejects <=> ~InScriptIntRange(scriptint_parse(stack[Len(stack)])))]_vars

\* (2^31 - 1) + (-1) was consumed by the second OP_ADD, whose sum with 2 is the
\* 5-byte item 2^31
C16_Witness ==
    /\ script = PushScript(<< <<255, 255, 255, 127>>, <<129>> >>) \o <<OP_ADD>>
                    \o PushIns(<<2>>) \o <<OP_ADD>>
    /\ state = "Succeeded"
    /\ stack = << <<0, 0, 0, 128, 0>> >>

(***************************************************************************)
(* C17: calling execute_script (or script_is_valid) repeatedly on the same  *)
(* Interpreter returns the same outcome every time: each call is Ok(true),  *)
(* or each is Ok(false), or each fails at the same instruction with the     *)
(* same error kind, although the stack left by one call is the stack the    *)
(* next call starts with.                                                   *)
(***************************************************************************)
C17_SameOutcome ==
    /\ [][calls' # calls => (stack' = stack /\ script' = script)]_vars
    /\ []((calls > 1 /\ state \in {"Failed", "Succeeded"})
            => (result = prev.result /\ executed = prev.executed))
    /\ []((calls > 1 /\ ret # Pending)
            => ret = (IF entry = "execute" THEN prev.result ELSE Bool(prev.result = Ok(TRUE))))

\* a second call that started on the two items the first call left gave the result
\* of the first
C17_Witness ==
    /\ calls = 2
    /\ script = <<OP_PUSHNUM_1, 0>>
    /\ stack = << <<1>>, <<>>, <<1>>, <<>> >>
    /\ state = "Succeeded"
    /\ prev.result = Ok(FALSE)
    /\ ret = Ok(FALSE)

(***************************************************************************)
(* C18: every execution terminates: for every finite script the interpreter *)
(* eventually reaches Failed or Succeeded; each instruction is executed at  *)
(* most once and in stream order (no jump back, no re-execution), so the    *)
(* number of executed instructions never exceeds the number of instructions *)
(* in the stream.                                                           *)
(***************************************************************************)
\* the number of well-formed instructions of s from byte p on
RECURSIVE InsCount(_, _)
InsCount(s, p) ==
    LET i == NextIns(s, p)
    IN IF i.kind \in {"End", "Err"} THEN 0 ELSE 1 + InsCount(s, i.next)

C18_Terminates ==
    /\ <>(state \in {"Failed", "Succeeded"})
    /\ [][/\ pos' >= pos
          /\ executed' \in {executed, executed + 1}
          /\ executed' = executed + 1 => pos' > pos]_vars
    /\ [](executed <= InsCount(script, 0))
    /\ [](executed + InsCount(script, pos) <= InsCount(script, 0))

(***************************************************************************)
(* C19: arithmetic never overflows or overruns its buffer: pop_num rejects  *)
(* every item longer than 4 bytes, so both operands of OP_ADD lie in        *)
(* -(2^31 - 1) .. 2^31 - 1, their sum fits the 64-bit signed integer and    *)
(* its encoding written by push_num is at most 5 bytes, inside the 8-byte   *)
(* buffer; every item an opcode handler produces (constants, OP_ADD,        *)
(* OP_EQUAL) is at most 5 bytes long.                                       *)
(***************************************************************************)
\* 2^32 as a magnitude
TwoTo32 == <<0, 0, 0, 0, 1>>

C19_NoOverflow ==
    /\ [][(AtOp(OP_ADD) /\ Len(stack) >= 2)
            => LET x == stack[Len(stack)]
                   y == stack[Len(stack) - 1]
                   a == scriptint_parse(x)
                   b == scriptint_parse(y)
                   res == i64_add(a, b)
               IN /\ state' # "Panicked"
                  /\ (Len(x) > 4 \/ Len(y) > 4) <=> state' = "Failed"
                  /\ state' = "Running"
                       => /\ InScriptIntRange(a) /\ InScriptIntRange(b)
                          /\ MagLess(res.mag, TwoTo32)
                          /\ ~i64_overflows(res)
                          /\ ~push_num_panics(res)
                          /\ stack'[Len(stack')] = write_scriptint(res)
                          /\ Len(stack'[Len(stack')]) <= 5
                          /\ 5 <= BufLen]_vars
    /\ [][(state = "Running" /\ Ins.kind = "Op" /\ Handled(Ins.op) /\ Len(stack') > 0
             /\ state' = "Running")
            => Len(stack'[Len(stack')]) <= 5]_vars

\* (2^31 - 1) + (2^31 - 1), the largest sum, was written as 5 bytes
C19_Witness ==
    /\ script = PushScript(<< <<255, 255, 255, 127>>, <<255, 255, 255, 127>> >>) \o <<OP_ADD>>
    /\ state = "Succeeded"
    /\ stack = << <<254, 255, 255, 255, 0>> >>

====
